---- MODULE Spec2Model ----
(***************************************************************************)
(* docker-pty-proxy: the /attach session bridge of internal/handler        *)
(* (src/unnamed/part_001).  One HTTP request is upgraded to a WebSocket,   *)
(* an exec session is created and attached, and two goroutines copy bytes  *)
(* between the two until the handler's WaitGroup is released.              *)
(*                                                                         *)
(* The session variables are functions over Sessions: one entry per        *)
(* /attach request served by its own handler goroutine.  resizeReq and     *)
(* healthReq hold one request to /resize (resizeHandler) and one to        *)
(* /healthz (healthHandler), treeReq one GetFileTree call of internal/fs.  *)
(***************************************************************************)
EXTENDS Integers, Sequences, FiniteSets, TLC

\* ------------------------------------------------------------------ bounds
\* Number of request slots the variables are laid out for.
NumSessions == 2
\* Frames one client sends over the lifetime of its connection.
MaxIn == 2
\* Read results the exec stream delivers over the lifetime of a session.
MaxOut == 2
\* readBufSize (4096 in the source), scaled down to keep chunks enumerable.
readBufSize == 2

Sessions == 1..NumSessions
\* The request slot the single-session specifications drive.
Primary == {1}

VARIABLES
    pc,             \* position of the handler goroutine in attachHandler
    reqId,          \* r.URL.Query().Get("id")
    httpStatus,     \* status written with http.Error / by the upgrader (0: none)
    upgradeTried,   \* upgrader.Upgrade was called
    wsState,        \* "none" | "open" | "closed": the *websocket.Conn
    wsCloses,       \* number of ws.Close() calls
    hijackState,    \* "none" | "open" | "closed": the HijackedResponse
    hijackCloses,   \* number of hijack.Close() calls
    cancelled,      \* ctx is cancelled
    defers,         \* deferred calls of the handler, most recent first
    wg,             \* sync.WaitGroup counter
    calls,          \* Runtime Client calls made for the exec of the session, in order
    wsOut,          \* ws.WriteMessage calls made, in order
    wsWriteFailed,  \* a ws.WriteMessage call returned an error
    outPc,          \* position of the Docker -> WebSocket goroutine
    buf,            \* its read buffer
    n,              \* n of the last hijack.Reader.Read
    readErr,        \* readErr of the last hijack.Reader.Read
    execPending,    \* read results the exec stream has ready, oldest first
    reads,          \* results hijack.Reader.Read has returned, in order
    inPc,           \* position of the WebSocket -> Docker goroutine
    cur,            \* payload of the last ws.ReadMessage
    inbox,          \* frames the client has sent and the loop has not read
    clientClosed,   \* the client closed the transport
    recvd,          \* data messages ws.ReadMessage has returned, in order
    execIn,         \* payloads written with hijack.Conn.Write, in order
    execWriteFailed, \* a hijack.Conn.Write call returned an error
    lateIn,         \* exec-input writes and execResize calls the inbound
                    \* loop made after the outbound loop had cancelled ctx
    lateOut,        \* binary frames the outbound loop sent after the
                    \* inbound loop had cancelled ctx
    resizeReq,      \* the /resize request being served by resizeHandler
    healthReq,      \* the /healthz request being served by healthHandler
    treeReq         \* the GetFileTree call being served (internal/fs)

handlerVars == <<pc, reqId, httpStatus, upgradeTried, defers, wg>>
resVars     == <<wsState, wsCloses, hijackState, hijackCloses, cancelled>>
logVars     == <<calls, wsOut, wsWriteFailed, execIn, execWriteFailed>>
outVars     == <<outPc, buf, n, readErr, execPending, reads>>
inVars      == <<inPc, cur, inbox, clientClosed, recvd>>
lateVars    == <<lateIn, lateOut>>
httpVars    == <<resizeReq, healthReq, treeReq>>
sessionVars == <<handlerVars, resVars, logVars, outVars, inVars, lateVars>>
vars == <<sessionVars, httpVars>>

\* ------------------------------------------------------- inbound payloads
\* A payload is a sequence of lexical tokens of the bytes the client sent:
\* a brace, a comma, a JSON member "key":value, or a run of other bytes.
\* A member's value is the JSON string s (v = "str") or the JSON number n
\* (v = "num").
Tok(t, v, s, num) == [t |-> t, v |-> v, s |-> s, n |-> num]
LBrace == Tok("{", "-", "", 0)
RBrace == Tok("}", "-", "", 0)
Comma  == Tok(",", "-", "", 0)
Raw(s) == Tok("raw", "-", s, 0)
StrMember(k, s)   == Tok(k, "str", s, 0)
NumMember(k, num) == Tok(k, "num", "", num)

MemberKeys == {"type", "cols", "rows", "other"}

PLs        == <<Raw("ls"), Raw("\n")>>
PEmpty     == <<>>
PResize    == <<LBrace, StrMember("type", "resize"), Comma, NumMember("cols", 120),
                Comma, NumMember("rows", 40), RBrace>>
PResizeB   == <<LBrace, NumMember("rows", 24), Comma, NumMember("cols", 80),
                Comma, StrMember("type", "resize"), RBrace>>
PResize0   == <<LBrace, StrMember("type", "resize"), RBrace>>
PPing      == <<LBrace, StrMember("type", "ping"), RBrace>>
PFragHead  == <<LBrace, StrMember("type", "resize"), Comma, NumMember("cols", 120)>>
PFragTail  == <<Comma, NumMember("rows", 40), RBrace>>
PBadCols   == <<LBrace, StrMember("type", "resize"), Comma, NumMember("cols", -1),
                Comma, NumMember("rows", 40), RBrace>>

\* json.Unmarshal(payload, &msg) for msg of type resizeMsg: the payload must
\* be one JSON object; "type" takes a string, "cols" and "rows" an unsigned
\* number; other keys are skipped, a repeated key keeps its last value, an
\* absent key leaves the zero value.  A value of the wrong type is an error.
ObjectBody(p) == SubSeq(p, 2, Len(p) - 1)

ValidObject(p) ==
    /\ Len(p) >= 2
    /\ p[1] = LBrace
    /\ p[Len(p)] = RBrace
    /\ LET b == ObjectBody(p)
       IN  \/ b = <<>>
           \/ /\ Len(b) % 2 = 1
              /\ \A i \in 1..Len(b) :
                    IF i % 2 = 1 THEN b[i].t \in MemberKeys ELSE b[i] = Comma

WellTyped(m) ==
    CASE m.t = "type"            -> m.v = "str"
      [] m.t \in {"cols", "rows"} -> m.v = "num" /\ m.n >= 0
      [] OTHER                   -> TRUE

MemberAt(b, k) == {i \in 1..Len(b) : b[i].t = k /\ WellTyped(b[i])}
LastAt(b, k)   == CHOOSE i \in MemberAt(b, k) : \A j \in MemberAt(b, k) : j <= i

Unmarshal(p) ==
    IF ~ValidObject(p)
    THEN [err |-> TRUE, Type |-> "", Cols |-> 0, Rows |-> 0]
    ELSE LET b == ObjectBody(p)
         IN  [err  |-> \E i \in 1..Len(b) : ~WellTyped(b[i]),
              Type |-> IF MemberAt(b, "type") = {} THEN "" ELSE b[LastAt(b, "type")].s,
              Cols |-> IF MemberAt(b, "cols") = {} THEN 0 ELSE b[LastAt(b, "cols")].n,
              Rows |-> IF MemberAt(b, "rows") = {} THEN 0 ELSE b[LastAt(b, "rows")].n]

\* Lines 139-141: the payload is taken as a resize command.
IsResizeCommandAnyType(payload) ==
    payload[1] = LBrace /\ ~Unmarshal(payload).err

IsResizeCommandAnyBrace(payload) ==
    payload[1] = LBrace

IsResizeCommand(payload) ==
    /\ payload[1] = LBrace
    /\ LET msg == Unmarshal(payload)
       IN  ~msg.err /\ msg.Type = "resize"

\* ------------------------------------------------------------- log records
Call(op, cols, rows, ok) == [op |-> op, cols |-> cols, rows |-> rows, ok |-> ok]
TextFrameAsBinary(text) == [mt |-> "binary", data |-> <<>>, text |-> text]

TextFrame(text)   == [mt |-> "text", data |-> <<>>, text |-> text]
BinaryFrame(data) == [mt |-> "binary", data |-> data, text |-> ""]

\* cancel(), the CancelFunc of line 57: ctx is cancelled from then on.
CancelLeavesCtx(c) == c

Cancel(c) == TRUE

\* ws, execID and hijack are locals of one invocation of the handler
\* (lines 50, 79, 81) and the two goroutines capture them: the handles a
\* goroutine of request s uses are those request s created.  The logs
\* wsOut, execIn and calls and the handle states are kept per handle, under
\* the request that created it.
OwnShared(s) == 1

Own(s) == s

\* defer f(): the call is pushed and runs when the handler returns.
DeferDropped(d, f) == d

Defer(d, f) == <<f>> \o d

\* r.URL.Query().Get("id") == ""
MissingIdNever(id) == FALSE

MissingId(id) == id = ""

Ids == {"", "abc123"}

\* ---------------------------------------------------- /resize and /healthz
\* A query parameter is the sequence of its characters; <<>> is what
\* r.URL.Query().Get returns for a parameter that is absent.
DigitVal == ("0" :> 0) @@ ("1" :> 1) @@ ("2" :> 2) @@ ("3" :> 3) @@ ("4" :> 4)
            @@ ("5" :> 5) @@ ("6" :> 6) @@ ("7" :> 7) @@ ("8" :> 8) @@ ("9" :> 9)

\* Lines 177 and 183: bitSize 32.  A value overflows when it exceeds 4294967295, that
\* is when 10 * acc + d is asked for with acc > 429496729, or with
\* acc = 429496729 and d > 5.
maxUint32Div10 == 429496729
maxUint32Mod10 == 5

ParseResult(val, err) == [val |-> val, err |-> err]

\* strconv.ParseUint(s, 10, 32): the empty string, a sign and any other
\* character that is not a decimal digit are syntax errors; a value that
\* does not fit 32 bits is a range error.
RECURSIVE ParseDigits(_, _)
ParseDigits(s, acc) ==
    IF s = <<>> THEN ParseResult(acc, "nil")
    ELSE IF Head(s) \notin DOMAIN DigitVal THEN ParseResult(0, "syntax")
    ELSE LET d == DigitVal[Head(s)]
         IN  IF \/ acc > maxUint32Div10
                \/ acc = maxUint32Div10 /\ d > maxUint32Mod10
             THEN ParseResult(0, "range")
             ELSE ParseDigits(Tail(s), 10 * acc + d)

ParseUint(s) == IF s = <<>> THEN ParseResult(0, "syntax") ELSE ParseDigits(s, 0)

\* Lines 178 and 184: err != nil || cols == 0
InvalidDimErrOnly(r) == r.err # "nil"

InvalidDim(r) == r.err # "nil" \/ r.val = 0

Reply(status, body) == [status |-> status, body |-> body]
NoReply == Reply(0, "")
InvalidW == "invalid \"w\" (cols) parameter"
InvalidH == "invalid \"h\" (rows) parameter"

\* Lines 166-187: what resizeHandler answers before it calls Docker;
\* NoReply when the request passes every test.
ResizeCheck(method, id, w, h) ==
    IF method # "POST" THEN Reply(405, "method not allowed")
    ELSE IF MissingId(id) THEN Reply(400, "missing \"id\" query parameter")
    ELSE IF InvalidDim(ParseUint(w)) THEN Reply(400, InvalidW)
    ELSE IF InvalidDim(ParseUint(h)) THEN Reply(400, InvalidH)
    ELSE NoReply

\* Lines 192-198: the answer after cli.ContainerResize.
ResizeReplyAlwaysOk(ok) == Reply(200, "ok")

ResizeReply(ok) == IF ok THEN Reply(200, "ok") ELSE Reply(500, "resize failed")

NoResizeRequest ==
    [pc |-> "idle", method |-> "", id |-> "", w |-> <<>>, h |-> <<>>,
     reply |-> NoReply, calls |-> <<>>]

\* Line 204: context.WithTimeout(r.Context(), 3*time.Second), in seconds.
pingTimeout == 3

\* cli.Ping(ctx): the daemon's own answer when it arrives before the
\* deadline of ctx, the context's error otherwise.
PingResultNoDeadline(latency, answer) == answer

PingResult(latency, answer) ==
    IF latency < pingTimeout THEN answer
    ELSE [ok |-> FALSE, version |-> ""]

\* The body healthHandler writes: the JSON object of lines 215-218, or the
\* text of http.Error (line 209).
JsonBody(status, version) == [status |-> status, docker_api |-> version, text |-> ""]
TextBody(text) == [status |-> "", docker_api |-> "", text |-> text]

\* Lines 208-218: the answer after cli.Ping.
HealthReply(ping) ==
    IF ~ping.ok THEN Reply(503, TextBody("docker unreachable"))
    ELSE Reply(200, JsonBody("ok", ping.version))

NoHealthRequest == [pc |-> "idle", reply |-> Reply(0, TextBody("")), pings |-> <<>>]

\* ------------------------------------------ buildTree (fs/service.go 104-158)
\* A string is the sequence of its characters.  Alphabet lists the
\* characters in use in the order of their bytes, which is the order
\* sort.Strings compares by.
Alphabet == <<" ", ".", "/", ":", "a", "b", "c", "d", "e", "f", "g", "i", "l",
              "o", "r", "t", "u", "y">>
Code(c) == CHOOSE i \in 1..Len(Alphabet) : Alphabet[i] = c

\* x < y for Go strings.
StrLess(x, y) ==
    \E k \in 1..Len(y) :
       /\ \A i \in 1..(k - 1) : i <= Len(x) /\ x[i] = y[i]
       /\ k > Len(x) \/ (k <= Len(x) /\ Code(x[k]) < Code(y[k]))

\* sort.Strings(lines): ascending.
RECURSIVE SortStrings(_)
SortStrings(S) ==
    IF S = {} THEN <<>>
    ELSE LET m == CHOOSE x \in S : \A y \in S \ {x} : StrLess(x, y)
         IN  <<m>> \o SortStrings(S \ {m})

\* Positions of the character c in s.
Indexes(s, c) == {i \in 1..Len(s) : s[i] = c}
Min(S) == CHOOSE i \in S : \A j \in S : i <= j
Max(S) == CHOOSE i \in S : \A j \in S : i >= j

\* strings.Split(line, ":"): the pieces between the colons.
RECURSIVE Split(_, _)
Split(s, c) ==
    IF Indexes(s, c) = {} THEN <<s>>
    ELSE LET i == Min(Indexes(s, c))
         IN  <<SubSeq(s, 1, i - 1)>> \o Split(SubSeq(s, i + 1, Len(s)), c)

HasPrefix(s, pre) == Len(s) >= Len(pre) /\ SubSeq(s, 1, Len(pre)) = pre
TrimPrefix(s, pre) == IF HasPrefix(s, pre) THEN SubSeq(s, Len(pre) + 1, Len(s)) ELSE s
Contains(s, sub) ==
    \E i \in 1..(Len(s) - Len(sub) + 1) : SubSeq(s, i, i + Len(sub) - 1) = sub

\* path.Base and path.Dir of a clean relative path.
Base(p) == IF Indexes(p, "/") = {} THEN p ELSE SubSeq(p, Max(Indexes(p, "/")) + 1, Len(p))
Dir(p) == IF Indexes(p, "/") = {} THEN <<".">> ELSE SubSeq(p, 1, Max(Indexes(p, "/")) - 1)

Directory == <<"d", "i", "r", "e", "c", "t", "o", "r", "y">>
RegularFile == <<"r", "e", "g", "u", "l", "a", "r", " ", "f", "i", "l", "e">>

\* &FileNode{Name, Path, Type}; Children are kept in dirs.
FileNode(relPath, rawType) ==
    [Name |-> Base(relPath), Path |-> relPath,
     Type |-> IF Contains(rawType, Directory) THEN "folder" ELSE "file"]

NoTreeRequest ==
    [pc |-> "idle", output |-> {}, lines |-> <<>>, dirs |-> <<>>, topLevel |-> <<>>]

Init ==
    /\ pc = [s \in Sessions |-> "idle"]
    /\ reqId = [s \in Sessions |-> ""]
    /\ httpStatus = [s \in Sessions |-> 0]
    /\ upgradeTried = [s \in Sessions |-> FALSE]
    /\ wsState = [s \in Sessions |-> "none"]
    /\ wsCloses = [s \in Sessions |-> 0]
    /\ hijackState = [s \in Sessions |-> "none"]
    /\ hijackCloses = [s \in Sessions |-> 0]
    /\ cancelled = [s \in Sessions |-> FALSE]
    /\ defers = [s \in Sessions |-> <<>>]
    /\ wg = [s \in Sessions |-> 0]
    /\ calls = [s \in Sessions |-> <<>>]
    /\ wsOut = [s \in Sessions |-> <<>>]
    /\ wsWriteFailed = [s \in Sessions |-> FALSE]
    /\ outPc = [s \in Sessions |-> "idle"]
    /\ buf = [s \in Sessions |-> [i \in 1..readBufSize |-> 0]]
    /\ n = [s \in Sessions |-> 0]
    /\ readErr = [s \in Sessions |-> "nil"]
    /\ execPending = [s \in Sessions |-> <<>>]
    /\ reads = [s \in Sessions |-> <<>>]
    /\ inPc = [s \in Sessions |-> "idle"]
    /\ cur = [s \in Sessions |-> <<>>]
    /\ inbox = [s \in Sessions |-> <<>>]
    /\ clientClosed = [s \in Sessions |-> FALSE]
    /\ recvd = [s \in Sessions |-> <<>>]
    /\ execIn = [s \in Sessions |-> <<>>]
    /\ execWriteFailed = [s \in Sessions |-> FALSE]
    /\ lateIn = [s \in Sessions |-> 0]
    /\ lateOut = [s \in Sessions |-> 0]
    /\ resizeReq = NoResizeRequest
    /\ healthReq = NoHealthRequest
    /\ treeReq = NoTreeRequest

\* ------------------------------------------------------ the handler itself
\* Lines 44-48: a request arrives; without an id it is answered 400.
Request(s) ==
    /\ pc[s] = "idle"
    /\ \E id \in Ids :
          /\ reqId' = [reqId EXCEPT ![s] = id]
          /\ IF MissingId(id)
             THEN /\ httpStatus' = [httpStatus EXCEPT ![s] = 400]
                  /\ pc' = [pc EXCEPT ![s] = "returned"]
             ELSE /\ pc' = [pc EXCEPT ![s] = "upgrade"]
                  /\ UNCHANGED httpStatus
    /\ UNCHANGED <<httpVars, lateVars,
                   upgradeTried, defers, wg, resVars, logVars, outVars, inVars>>

\* Lines 50-58: the upgrade; on success ws.Close and cancel are deferred.
Upgrade(s) ==
    /\ pc[s] = "upgrade"
    /\ upgradeTried' = [upgradeTried EXCEPT ![s] = TRUE]
    /\ \E ok \in BOOLEAN :
          IF ok
          THEN /\ httpStatus' = [httpStatus EXCEPT ![s] = 101]
               /\ wsState' = [wsState EXCEPT ![s] = "open"]
               /\ defers' = [defers EXCEPT ![s] = Defer(Defer(@, "ws.Close"), "cancel")]
               /\ pc' = [pc EXCEPT ![s] = "create"]
          ELSE /\ httpStatus' = [httpStatus EXCEPT ![s] = 400]
               /\ pc' = [pc EXCEPT ![s] = "returned"]
               /\ UNCHANGED <<wsState, defers>>
    /\ UNCHANGED <<httpVars, lateVars,
                   reqId, wg, wsCloses, hijackState, hijackCloses, cancelled,
                   logVars, outVars, inVars>>

\* Lines 77 and 87: return after the error frame; the deferred calls run.
AfterStartErrorRetry == "create"

AfterStartError == "unwind"

\* Lines 65-79: cli.ContainerExecCreate; on error one text frame, then return.
ExecCreate(s) ==
    /\ pc[s] = "create"
    /\ \/ /\ calls' = [calls EXCEPT ![s] = Append(@, Call("execCreate", 0, 0, TRUE))]
          /\ pc' = [pc EXCEPT ![s] = "attach"]
          /\ UNCHANGED <<wsOut, wsWriteFailed>>
       \/ /\ calls' = [calls EXCEPT ![s] = Append(@, Call("execCreate", 0, 0, FALSE))]
          /\ wsOut' = [wsOut EXCEPT ![s] = Append(@, TextFrame("exec create error"))]
          /\ \E wrote \in BOOLEAN :
                wsWriteFailed' = [wsWriteFailed EXCEPT ![s] = @ \/ ~wrote]
          /\ pc' = [pc EXCEPT ![s] = AfterStartError]
    /\ UNCHANGED <<httpVars, lateVars,
                   reqId, httpStatus, upgradeTried, defers, wg, resVars,
                   execIn, execWriteFailed, outVars, inVars>>

\* Lines 81-89: cli.ContainerExecAttach; on success hijack.Close is deferred.
ExecAttach(s) ==
    /\ pc[s] = "attach"
    /\ \/ /\ calls' = [calls EXCEPT ![s] = Append(@, Call("execAttach", 0, 0, TRUE))]
          /\ hijackState' = [hijackState EXCEPT ![s] = "open"]
          /\ defers' = [defers EXCEPT ![s] = Defer(@, "hijack.Close")]
          /\ pc' = [pc EXCEPT ![s] = "spawn"]
          /\ UNCHANGED <<wsOut, wsWriteFailed>>
       \/ /\ calls' = [calls EXCEPT ![s] = Append(@, Call("execAttach", 0, 0, FALSE))]
          /\ wsOut' = [wsOut EXCEPT ![s] = Append(@, TextFrame("exec attach error"))]
          /\ \E wrote \in BOOLEAN :
                wsWriteFailed' = [wsWriteFailed EXCEPT ![s] = @ \/ ~wrote]
          /\ pc' = [pc EXCEPT ![s] = AfterStartError]
          /\ UNCHANGED <<hijackState, defers>>
    /\ UNCHANGED <<httpVars, lateVars,
                   reqId, httpStatus, upgradeTried, wg, wsState, wsCloses,
                   hijackCloses, cancelled, execIn, execWriteFailed, outVars, inVars>>

\* Lines 93-157: wg.Add(2) and the two go statements.
Spawn(s) ==
    /\ pc[s] = "spawn"
    /\ wg' = [wg EXCEPT ![s] = 2]
    /\ outPc' = [outPc EXCEPT ![s] = "read"]
    /\ inPc' = [inPc EXCEPT ![s] = "read"]
    /\ pc' = [pc EXCEPT ![s] = "wait"]
    /\ UNCHANGED <<httpVars, lateVars,
                   reqId, httpStatus, upgradeTried, defers, resVars, logVars,
                   buf, n, readErr, execPending, reads,
                   cur, inbox, clientClosed, recvd>>

\* sync.WaitGroup.Wait: blocks until the counter is zero.
WaitReleasedByFirstDone(c) == c <= 1

WaitReleased(c) == c = 0

\* Line 159: wg.Wait() returns once both goroutines have called wg.Done().
Wait(s) ==
    /\ pc[s] = "wait"
    /\ WaitReleased(wg[s])
    /\ pc' = [pc EXCEPT ![s] = "unwind"]
    /\ UNCHANGED <<httpVars, lateVars,
                   reqId, httpStatus, upgradeTried, defers, wg, resVars, logVars,
                   outVars, inVars>>

\* The handler returns: the deferred calls run, most recent first
\* (hijack.Close of line 89, cancel of line 58, ws.Close of line 55).
RunDeferred(s) ==
    /\ pc[s] = "unwind"
    /\ defers[s] # <<>>
    /\ defers' = [defers EXCEPT ![s] = Tail(@)]
    /\ LET f == Head(defers[s])
       IN  /\ hijackState' = IF f = "hijack.Close"
                             THEN [hijackState EXCEPT ![Own(s)] = "closed"] ELSE hijackState
           /\ hijackCloses' = IF f = "hijack.Close"
                              THEN [hijackCloses EXCEPT ![Own(s)] = @ + 1] ELSE hijackCloses
           /\ cancelled' = IF f = "cancel"
                           THEN [cancelled EXCEPT ![s] = Cancel(@)] ELSE cancelled
           /\ wsState' = IF f = "ws.Close"
                         THEN [wsState EXCEPT ![Own(s)] = "closed"] ELSE wsState
           /\ wsCloses' = IF f = "ws.Close"
                          THEN [wsCloses EXCEPT ![Own(s)] = @ + 1] ELSE wsCloses
    /\ UNCHANGED <<httpVars, lateVars,
                   pc, reqId, httpStatus, upgradeTried, wg, logVars, outVars, inVars>>

Return(s) ==
    /\ pc[s] = "unwind"
    /\ defers[s] = <<>>
    /\ pc' = [pc EXCEPT ![s] = "returned"]
    /\ UNCHANGED <<httpVars, lateVars,
                   reqId, httpStatus, upgradeTried, defers, wg, resVars, logVars,
                   outVars, inVars>>

\* ------------------------------------------------------------ environment
ReadResult(data, err) == [data |-> data, err |-> err]

\* The exec stream makes one more read result available.  After a result
\* that carries an error (io.EOF or another) the stream delivers nothing.
ExecEmit(s, results) ==
    /\ hijackState[s] = "open"
    /\ Len(reads[s]) + Len(execPending[s]) < MaxOut
    /\ \A i \in 1..Len(execPending[s]) : execPending[s][i].err = "nil"
    /\ \A i \in 1..Len(reads[s]) : reads[s][i].err = "nil"
    /\ \E r \in results :
          execPending' = [execPending EXCEPT ![s] = Append(@, r)]
    /\ UNCHANGED <<httpVars, lateVars,
                   handlerVars, resVars, logVars, inVars, outPc, buf, n, readErr, reads>>

Message(mt, payload) == [mt |-> mt, payload |-> payload]

\* The client sends one data frame.
ClientSend(s, payloads) ==
    /\ wsState[s] = "open"
    /\ ~clientClosed[s]
    /\ Len(recvd[s]) + Len(inbox[s]) < MaxIn
    /\ \E p \in payloads :
          inbox' = [inbox EXCEPT ![s] =
                       Append(@, Message(IF p # <<>> /\ p[1] = LBrace
                                         THEN "text" ELSE "binary", p))]
    /\ UNCHANGED <<httpVars, lateVars,
                   handlerVars, resVars, logVars, outVars, inPc, cur, clientClosed, recvd>>

\* The client closes the transport (a close frame or a dropped connection).
ClientClose(s) ==
    /\ wsState[s] = "open"
    /\ ~clientClosed[s]
    /\ clientClosed' = [clientClosed EXCEPT ![s] = TRUE]
    /\ UNCHANGED <<httpVars, lateVars,
                   handlerVars, resVars, logVars, outVars, inPc, cur, inbox, recvd>>

\* A copy loop has exited once its deferred cancel() has run (lines 99, 122).
Exited(loopPc) == loopPc \in {"wgdone", "done"}

\* --------------------------------------------- Docker -> WebSocket (96-117)
\* Read(buf) stores the data at the front of buf and leaves the rest of it.
Fill(b, data) == [i \in 1..Len(b) |-> IF i <= Len(data) THEN data[i] ELSE b[i]]

\* buf[:n]
OutFrameWholeBuf(b, k) == b

OutFrame(b, k) == SubSeq(b, 1, k)

\* Line 103: the read is forwarded when n > 0.
ForwardsReadWithoutErr(k, err) == k > 0 /\ err = "nil"

ForwardsRead(k, err) == k > 0

\* Line 102: hijack.Reader.Read(buf).  It blocks until the stream has a
\* result or the connection has been closed under it.
OutRead(s) ==
    /\ outPc[s] = "read"
    /\ execPending[s] # <<>> \/ hijackState[s] = "closed"
    /\ LET r == IF hijackState[s] = "closed"
                THEN ReadResult(<<>>, "err") ELSE Head(execPending[s])
       IN  /\ buf' = [buf EXCEPT ![s] = Fill(@, r.data)]
           /\ n' = [n EXCEPT ![s] = Len(r.data)]
           /\ readErr' = [readErr EXCEPT ![s] = r.err]
           /\ reads' = [reads EXCEPT ![s] = Append(@, r)]
           /\ execPending' = IF hijackState[s] = "closed" THEN execPending
                             ELSE [execPending EXCEPT ![s] = Tail(@)]
           /\ outPc' = [outPc EXCEPT ![s] =
                           IF ForwardsRead(Len(r.data), r.err) THEN "write"
                           ELSE IF r.err # "nil" THEN "cancel"
                           ELSE "read"]
    /\ UNCHANGED <<httpVars, lateVars,
                   handlerVars, resVars, logVars, inVars>>

\* Lines 105-115: return on writeErr, then return on readErr, else loop.
AfterWsWriteIgnoringWriteErr(ok, err) == IF err # "nil" THEN "cancel" ELSE "read"

AfterWsWrite(ok, err) ==
    IF ~ok THEN "cancel"
    ELSE IF err # "nil" THEN "cancel"
    ELSE "read"

\* Lines 104-115: ws.WriteMessage(BinaryMessage, buf[:n]) under the write
\* deadline, then the readErr test.
OutWrite(s) ==
    /\ outPc[s] = "write"
    /\ wsOut' = [wsOut EXCEPT ![Own(s)] = Append(@, BinaryFrame(OutFrame(buf[s], n[s])))]
    /\ \E ok \in BOOLEAN :
          /\ ok => wsState[Own(s)] = "open"
          /\ lateOut' = [lateOut EXCEPT ![s] =
                            IF ok /\ Exited(inPc[s]) THEN @ + 1 ELSE @]
          /\ wsWriteFailed' = [wsWriteFailed EXCEPT ![s] = @ \/ ~ok]
          /\ outPc' = [outPc EXCEPT ![s] = AfterWsWrite(ok, readErr[s])]
    /\ UNCHANGED <<httpVars, lateIn,
                   handlerVars, resVars, calls, execIn, execWriteFailed, inVars,
                   buf, n, readErr, execPending, reads>>

\* Line 99: the deferred cancel() of the goroutine.
OutCancel(s) ==
    /\ outPc[s] = "cancel"
    /\ cancelled' = [cancelled EXCEPT ![s] = Cancel(@)]
    /\ outPc' = [outPc EXCEPT ![s] = "wgdone"]
    /\ UNCHANGED <<httpVars, lateVars,
                   handlerVars, wsState, wsCloses, hijackState, hijackCloses,
                   logVars, inVars, buf, n, readErr, execPending, reads>>

\* Line 98: the deferred wg.Done() of the goroutine.
OutDone(s) ==
    /\ outPc[s] = "wgdone"
    /\ wg' = [wg EXCEPT ![s] = @ - 1]
    /\ outPc' = [outPc EXCEPT ![s] = "done"]
    /\ UNCHANGED <<httpVars, lateVars,
                   pc, reqId, httpStatus, upgradeTried, defers, resVars,
                   logVars, inVars, buf, n, readErr, execPending, reads>>

\* -------------------------------------------- WebSocket -> Docker (119-157)
\* Line 134: len(payload) == 0
IsEmpty(payload) == Len(payload) = 0

\* Lines 134-136: an empty payload: continue.
AfterEmptyReturn == "cancel"

AfterEmpty == "read"

\* Lines 124-150: ws.ReadMessage() and the dispatch of what it returned.
\* It blocks until a frame has arrived, the client has closed the transport
\* or the connection has been closed under it.
InRead(s) ==
    /\ inPc[s] = "read"
    /\ inbox[s] # <<>> \/ clientClosed[s] \/ wsState[s] = "closed"
    /\ IF inbox[s] # <<>> /\ wsState[s] = "open"
       THEN LET m == Head(inbox[s])
            IN  /\ inbox' = [inbox EXCEPT ![s] = Tail(@)]
                /\ recvd' = [recvd EXCEPT ![s] = Append(@, m)]
                /\ cur' = [cur EXCEPT ![s] = m.payload]
                /\ inPc' = [inPc EXCEPT ![s] =
                               IF m.mt = "close" THEN "cancel"
                               ELSE IF IsEmpty(m.payload) THEN AfterEmpty
                               ELSE IF IsResizeCommand(m.payload) THEN "resize"
                               ELSE "write"]
       ELSE /\ inPc' = [inPc EXCEPT ![s] = "cancel"]
            /\ UNCHANGED <<inbox, recvd, cur>>
    /\ UNCHANGED <<httpVars, lateVars,
                   handlerVars, resVars, logVars, outVars, clientClosed>>

\* The arguments of the resize call: Width: msg.Cols, Height: msg.Rows.
ResizeCallOnContainer(payload, ok) ==
    Call("containerResize", Unmarshal(payload).Cols, Unmarshal(payload).Rows, ok)

ResizeCallSwapped(payload, ok) ==
    Call("execResize", Unmarshal(payload).Rows, Unmarshal(payload).Cols, ok)

ResizeCall(payload, ok) ==
    Call("execResize", Unmarshal(payload).Cols, Unmarshal(payload).Rows, ok)

\* Line 148: continue.
AfterResizeFallThrough == "write"

AfterResize == "read"

\* Lines 145-147: the error of cli.ContainerExecResize is logged and nothing
\* else; it does not end the loop.
ResizeErrorEndsLoopAlways(ok) == ~ok

ResizeErrorEndsLoop(ok) == FALSE

\* Lines 142-148: cli.ContainerExecResize(ctx, execID, ...); an error is
\* logged and the loop continues.
InResize(s) ==
    /\ inPc[s] = "resize"
    /\ \E ok \in BOOLEAN :
          /\ ok => ~cancelled[s]
          /\ calls' = [calls EXCEPT ![Own(s)] = Append(@, ResizeCall(cur[s], ok))]
          /\ inPc' = [inPc EXCEPT ![s] =
                          IF ResizeErrorEndsLoop(ok) THEN "cancel" ELSE AfterResize]
    /\ lateIn' = [lateIn EXCEPT ![s] = IF Exited(outPc[s]) THEN @ + 1 ELSE @]
    /\ UNCHANGED <<httpVars, lateOut,
                   handlerVars, resVars, wsOut, wsWriteFailed, execIn,
                   execWriteFailed, outVars, cur, inbox, clientClosed, recvd>>

\* Lines 152-155: what the inbound loop writes to ws when its write to the
\* exec input fails: nothing, the error is logged.
InboundErrorFramesToClient(ok) == IF ok THEN <<>> ELSE <<TextFrame("write error")>>

InboundErrorFrames(ok) == <<>>

\* Lines 152-155: hijack.Conn.Write(payload).
InWrite(s) ==
    /\ inPc[s] = "write"
    /\ execIn' = [execIn EXCEPT ![Own(s)] = Append(@, cur[s])]
    /\ \E ok \in BOOLEAN :
          /\ ok => hijackState[Own(s)] = "open"
          /\ wsOut' = [wsOut EXCEPT ![Own(s)] = @ \o InboundErrorFrames(ok)]
          /\ lateIn' = [lateIn EXCEPT ![s] =
                          IF ok /\ Exited(outPc[s]) THEN @ + 1 ELSE @]
          /\ execWriteFailed' = [execWriteFailed EXCEPT ![s] = @ \/ ~ok]
          /\ inPc' = [inPc EXCEPT ![s] = IF ok THEN "read" ELSE "cancel"]
    /\ UNCHANGED <<httpVars, lateOut,
                   handlerVars, resVars, calls, wsWriteFailed, outVars,
                   cur, inbox, clientClosed, recvd>>

\* Line 122: the deferred cancel() of the goroutine.
InCancel(s) ==
    /\ inPc[s] = "cancel"
    /\ cancelled' = [cancelled EXCEPT ![s] = Cancel(@)]
    /\ inPc' = [inPc EXCEPT ![s] = "wgdone"]
    /\ UNCHANGED <<httpVars, lateVars,
                   handlerVars, wsState, wsCloses, hijackState, hijackCloses,
                   logVars, outVars, cur, inbox, clientClosed, recvd>>

\* Line 121: the deferred wg.Done() of the goroutine.
InDone(s) ==
    /\ inPc[s] = "wgdone"
    /\ wg' = [wg EXCEPT ![s] = @ - 1]
    /\ inPc' = [inPc EXCEPT ![s] = "done"]
    /\ UNCHANGED <<httpVars, lateVars,
                   pc, reqId, httpStatus, upgradeTried, defers, resVars,
                   logVars, outVars, cur, inbox, clientClosed, recvd>>

\* ------------------------------------------------- resizeHandler (164-200)
Methods == {"GET", "POST"}
WParams == {<<>>, <<"0">>, <<"1", "2", "0">>, <<"-", "1">>, <<"8", "0", "x">>,
            <<"4", "2", "9", "4", "9", "6", "7", "2", "9", "6">>}
HParams == {<<>>, <<"0">>, <<"4", "0">>, <<"0", "2", "4">>, <<"+", "4", "0">>,
            <<"9", "9", "9", "9", "9", "9", "9", "9", "9", "9", "9">>}

\* A request to /resize arrives, with its method and query parameters.
ResizeRequestOf(methods, ids, ws, hs) ==
    /\ resizeReq.pc = "idle"
    /\ \E method \in methods, id \in ids, w \in ws, h \in hs :
          resizeReq' = [resizeReq EXCEPT !.pc = "check", !.method = method,
                                         !.id = id, !.w = w, !.h = h]
    /\ UNCHANGED <<sessionVars, healthReq, treeReq>>

ResizeRequest == ResizeRequestOf(Methods, Ids, WParams, HParams)

\* Lines 166-187: the method, id, w and h tests, each answering on failure.
ResizeValidate ==
    /\ resizeReq.pc = "check"
    /\ LET r == ResizeCheck(resizeReq.method, resizeReq.id, resizeReq.w, resizeReq.h)
       IN  resizeReq' = IF r = NoReply
                        THEN [resizeReq EXCEPT !.pc = "call"]
                        ELSE [resizeReq EXCEPT !.pc = "done", !.reply = r]
    /\ UNCHANGED <<sessionVars, healthReq, treeReq>>

\* Lines 189-198: cli.ContainerResize(ctx, containerID, {Height: rows,
\* Width: cols}) and the answer.
ContainerResize ==
    /\ resizeReq.pc = "call"
    /\ \E ok \in BOOLEAN :
          resizeReq' = [resizeReq EXCEPT
                           !.pc = "done",
                           !.calls = Append(@, Call("containerResize",
                                                    ParseUint(resizeReq.w).val,
                                                    ParseUint(resizeReq.h).val, ok)),
                           !.reply = ResizeReply(ok)]
    /\ UNCHANGED <<sessionVars, healthReq, treeReq>>

\* ------------------------------------------------- healthHandler (202-220)
\* Seconds the daemon takes to answer a ping, at most.
MaxLatency == 4
Versions == {"1.43", "1.45"}
PingAnswers == {[ok |-> TRUE, version |-> v] : v \in Versions}
                   \cup {[ok |-> FALSE, version |-> ""]}

\* A request to /healthz arrives.
HealthRequest ==
    /\ healthReq.pc = "idle"
    /\ healthReq' = [healthReq EXCEPT !.pc = "ping"]
    /\ UNCHANGED <<sessionVars, resizeReq, treeReq>>

\* Lines 204-218: cli.Ping under the 3-second context, and the answer.
Ping ==
    /\ healthReq.pc = "ping"
    /\ \E latency \in 0..MaxLatency, answer \in PingAnswers :
          healthReq' = [healthReq EXCEPT
                           !.pc = "done",
                           !.pings = Append(@, [latency |-> latency, answer |-> answer]),
                           !.reply = HealthReply(PingResult(latency, answer))]
    /\ UNCHANGED <<sessionVars, resizeReq, treeReq>>

\* ------------------------------- GetFileTree (fs/service.go 61-158)
\* Lines of find's output a request may get, at most.
MaxLines == 3

\* One stat line of the find command, "%n:%F".
StatLine(name, type) == name \o <<":">> \o type
FindLines ==
    { StatLine(<<".">>, Directory),
      StatLine(<<".", "/", "a">>, Directory),
      StatLine(<<".", "/", "b">>, RegularFile),
      StatLine(<<".", "/", "a", "/", "b">>, Directory),
      StatLine(<<".", "/", "a", "/", "b">>, RegularFile),
      StatLine(<<".", "/", "a", "/", "b", "/", "c">>, RegularFile) }

\* The outputs of find: each name is listed once, under one type.
FindOutputs ==
    { S \in SUBSET FindLines :
         /\ Cardinality(S) <= MaxLines
         /\ \A x, y \in S : Split(x, ":")[1] = Split(y, ":")[1] => x = y }

\* Lines 65-101: the find command has run in the container and its standard
\* output is handed to buildTree.
GetFileTree ==
    /\ treeReq.pc = "idle"
    /\ \E out \in FindOutputs :
          treeReq' = [treeReq EXCEPT !.pc = "sort", !.output = out]
    /\ UNCHANGED <<sessionVars, resizeReq, healthReq>>

\* Lines 105-109: the maps, strings.Split(..., "\n") and sort.Strings(lines).
BuildTreeSort ==
    /\ treeReq.pc = "sort"
    /\ treeReq' = [treeReq EXCEPT !.pc = "loop", !.lines = SortStrings(treeReq.output)]
    /\ UNCHANGED <<sessionVars, resizeReq, healthReq>>

\* Lines 111-155: one iteration of the loop over the sorted lines.
BuildTreeLine ==
    /\ treeReq.pc = "loop"
    /\ treeReq.lines # <<>>
    /\ LET line == Head(treeReq.lines)
           parts == Split(line, ":")
           relPath == TrimPrefix(parts[1], <<".", "/">>)
           skip == \/ line = <<>>
                   \/ Len(parts) < 2
                   \/ relPath = <<".">> \/ relPath = <<>>
           node == FileNode(relPath, parts[2])
           dirs1 == IF node.Type = "folder"
                    THEN (relPath :> <<>>) @@ treeReq.dirs ELSE treeReq.dirs
           parentPath == Dir(relPath)
       IN  IF skip
           THEN treeReq' = [treeReq EXCEPT !.lines = Tail(@)]
           ELSE IF parentPath = <<".">>
           THEN treeReq' = [treeReq EXCEPT !.lines = Tail(@), !.dirs = dirs1,
                                           !.topLevel = Append(@, node)]
           ELSE IF parentPath \in DOMAIN dirs1
           THEN treeReq' = [treeReq EXCEPT
                               !.lines = Tail(@),
                               !.dirs = [dirs1 EXCEPT ![parentPath] = Append(@, node)]]
           ELSE treeReq' = [treeReq EXCEPT !.lines = Tail(@), !.dirs = dirs1,
                                           !.topLevel = Append(@, node)]
    /\ UNCHANGED <<sessionVars, resizeReq, healthReq>>

\* Line 157: return topLevel, nil.
BuildTreeReturn ==
    /\ treeReq.pc = "loop"
    /\ treeReq.lines = <<>>
    /\ treeReq' = [treeReq EXCEPT !.pc = "done"]
    /\ UNCHANGED <<sessionVars, resizeReq, healthReq>>

\* ---------------------------------------------------------- specifications
\* The three goroutines of a session.
Handler(s) ==
    \/ Upgrade(s)
    \/ ExecCreate(s)
    \/ ExecAttach(s)
    \/ Spawn(s)
    \/ Wait(s)
    \/ RunDeferred(s)
    \/ Return(s)

OutLoop(s) ==
    \/ OutRead(s)
    \/ OutWrite(s)
    \/ OutCancel(s)
    \/ OutDone(s)

InLoop(s) ==
    \/ InRead(s)
    \/ InResize(s)
    \/ InWrite(s)
    \/ InCancel(s)
    \/ InDone(s)

Program(s) == Handler(s) \/ OutLoop(s) \/ InLoop(s)

\* Spec: the whole life of one /attach request, with a small alphabet on
\* both streams.
Payloads == {PLs, PResize}
ReadResults == {ReadResult(<<1>>, "nil"), ReadResult(<<>>, "EOF")}

Next ==
    \E s \in Primary :
        \/ Request(s)
        \/ ClientSend(s, Payloads)
        \/ ClientClose(s)
        \/ ExecEmit(s, ReadResults)
        \/ Program(s)

Spec == Init /\ [][Next]_vars

\* FairSpec: Spec with the scheduler's guarantee that a goroutine that can
\* take a step eventually takes one.  Nothing is assumed of the client or of
\* the exec stream: either may stay silent for ever.
FairSpec ==
    /\ Spec
    /\ \A s \in Primary :
          WF_vars(Handler(s)) /\ WF_vars(OutLoop(s)) /\ WF_vars(InLoop(s))

\* SpecIn: every kind of inbound payload, against an exec stream that ends
\* with its first read.
AllPayloads == {PEmpty, PLs, PResize, PResizeB, PResize0, PPing, PFragHead,
                PFragTail, PBadCols}
LastRead == {ReadResult(<<1>>, "EOF")}

NextIn ==
    \E s \in Primary :
        \/ Request(s)
        \/ ClientSend(s, AllPayloads)
        \/ ClientClose(s)
        \/ ExecEmit(s, LastRead)
        \/ Program(s)

SpecIn == Init /\ [][NextIn]_vars

\* SpecOut: every kind of read result, against a client that types and
\* resizes.
Chunks == {<<>>, <<1>>, <<2, 1>>}
ReadErrs == {"nil", "EOF", "err"}
AllReadResults == {ReadResult(c, e) : c \in Chunks, e \in ReadErrs}

NextOut ==
    \E s \in Primary :
        \/ Request(s)
        \/ ClientSend(s, Payloads)
        \/ ClientClose(s)
        \/ ExecEmit(s, AllReadResults)
        \/ Program(s)

SpecOut == Init /\ [][NextOut]_vars

\* SpecHttp: one request to /resize and one to /healthz, served side by side.
NextHttp ==
    \/ ResizeRequest
    \/ ResizeValidate
    \/ ContainerResize
    \/ HealthRequest
    \/ Ping

SpecHttp == Init /\ [][NextHttp]_vars

\* SpecMixed: one /attach session and one POST /resize request for the same
\* container, served side by side.
NextMixed ==
    \/ \E s \in Primary :
          \/ Request(s)
          \/ ClientSend(s, Payloads)
          \/ ClientClose(s)
          \/ ExecEmit(s, ReadResults)
          \/ Program(s)
    \/ ResizeRequestOf({"POST"}, {"abc123"}, {<<"1", "2", "0">>, <<"0">>}, {<<"4", "0">>})
    \/ ResizeValidate
    \/ ContainerResize

SpecMixed == Init /\ [][NextMixed]_vars

\* SpecPair: two /attach requests served at the same time, in every
\* interleaving.  The two clients and the two exec streams carry different
\* bytes, so that a byte on the wrong handle shows; each client sends one
\* frame fewer than MaxIn.
Pair == {1, 2}
PairIn == MaxIn - 1
PairPayloads(s) == IF s = 1 THEN {PLs} ELSE {PResizeB}
PairReads(s) ==
    IF s = 1 THEN {ReadResult(<<1>>, "EOF")} ELSE {ReadResult(<<2, 1>>, "EOF")}

NextPair ==
    \E s \in Pair :
        \/ Request(s)
        \/ Len(recvd[s]) + Len(inbox[s]) < PairIn /\ ClientSend(s, PairPayloads(s))
        \/ ClientClose(s)
        \/ ExecEmit(s, PairReads(s))
        \/ Program(s)

SpecPair == Init /\ [][NextPair]_vars

\* SpecTree: one GetFileTree call, over every output of find.
NextTree ==
    \/ GetFileTree
    \/ BuildTreeSort
    \/ BuildTreeLine
    \/ BuildTreeReturn

SpecTree == Init /\ [][NextTree]_vars

\* ------------------------------------------------------------------ claims
\* The session is over: both loops have ended, both handles are closed and
\* attachHandler has returned.
Destroyed(s) ==
    /\ inPc[s] = "done"
    /\ outPc[s] = "done"
    /\ hijackState[s] = "closed"
    /\ wsState[s] = "closed"
    /\ pc[s] = "returned"

\* C1: in an established session, once the client has closed the transport
\* the inbound loop ends, the outbound loop ends, the exec-session handle is
\* closed and attachHandler returns, even when the exec stream stays silent.
\* Stated on the runs the claim singles out: with the transport closed and
\* nothing read from the exec stream, either the session is destroyed or the
\* exec stream delivers something after all.
C1_ClientCloseReleasesSession ==
    \A s \in Primary :
        (/\ pc[s] = "wait"
         /\ clientClosed[s]
         /\ reads[s] = <<>> /\ execPending[s] = <<>>)
            ~> (\/ Destroyed(s)
                \/ reads[s] # <<>> \/ execPending[s] # <<>>)

\* C2: in an established session, once either copy loop has ended the
\* session is destroyed, in particular when the outbound loop ends on the
\* exec stream's end-of-stream while the client stays connected and silent.
\* Stated on the runs the claim singles out: with the outbound loop ended on
\* io.EOF and the client connected with nothing sent and unread, either the
\* session is destroyed or the client sends or closes after all.
C2_EitherLoopEndDestroysSession ==
    \A s \in Primary :
        (/\ pc[s] = "wait"
         /\ outPc[s] = "done" /\ readErr[s] = "EOF"
         /\ ~clientClosed[s] /\ inbox[s] = <<>>)
            ~> (\/ Destroyed(s)
                \/ clientClosed[s] \/ inbox[s] # <<>>)

\* C3: no handle is ever closed twice, and when attachHandler has returned
\* the transport, if the upgrade produced one, has been closed exactly once
\* and so has the exec-session handle, if the attach produced one.
C3_HandlesClosedExactlyOnce ==
    \A s \in Sessions :
        /\ wsCloses[s] <= 1
        /\ hijackCloses[s] <= 1
        /\ wsState[s] = "closed" <=> wsCloses[s] = 1
        /\ hijackState[s] = "closed" <=> hijackCloses[s] = 1
        /\ pc[s] = "returned" =>
              /\ wsState[s] # "open"
              /\ hijackState[s] # "open"
              /\ upgradeTried[s] /\ httpStatus[s] = 101 => wsCloses[s] = 1
              /\ (\E i \in 1..Len(calls[s]) :
                     calls[s][i].op = "execAttach" /\ calls[s][i].ok)
                    => hijackCloses[s] = 1

C3_Witness ==
    /\ pc[1] = "returned"
    /\ inPc[1] = "done" /\ outPc[1] = "done"
    /\ wsCloses[1] = 1 /\ hijackCloses[1] = 1

\* C4: as long as no transport write has failed, the binary frames written
\* to the transport are the non-empty reads the exec stream returned: one
\* frame per read, the same bytes, the same order.
NonEmptyData(rs) ==
    LET ne == SelectSeq(rs, LAMBDA r : r.data # <<>>)
    IN  [i \in 1..Len(ne) |-> ne[i].data]

\* The reads whose iteration of the outbound loop is over.
ReadsHandled(s) ==
    IF outPc[s] = "write" THEN SubSeq(reads[s], 1, Len(reads[s]) - 1) ELSE reads[s]

C4_OutboundFramesEqualReads ==
    \A s \in Sessions :
        (outPc[s] # "idle" /\ ~wsWriteFailed[s]) =>
            LET want == NonEmptyData(ReadsHandled(s))
            IN  wsOut[s] = [i \in 1..Len(want) |-> BinaryFrame(want[i])]

C4_Witness ==
    /\ outPc[1] = "done"
    /\ ~wsWriteFailed[1]
    /\ Len(reads[1]) = 2
    /\ wsOut[1] = <<BinaryFrame(<<2, 1>>), BinaryFrame(<<1>>)>>

\* The frames whose iteration of the inbound loop is over.
FramesHandled(s) ==
    IF inPc[s] \in {"resize", "write"}
    THEN SubSeq(recvd[s], 1, Len(recvd[s]) - 1) ELSE recvd[s]

\* A frame that starts with '{', parses and has type "resize".
WellFormedResize(p) ==
    /\ p # <<>>
    /\ p[1] = LBrace
    /\ LET msg == Unmarshal(p)
       IN  ~msg.err /\ msg.Type = "resize"

ResizeFrames(fs) == SelectSeq(fs, LAMBDA m : WellFormedResize(m.payload))
ResizeCalls(cs)  == SelectSeq(cs, LAMBDA c : c.op = "execResize")

\* C5: every well-formed resize frame makes exactly one execResize call with
\* the frame's cols and rows, and none of those frames is written to the
\* exec input.
C5_ResizeFrameCallsExecResizeOnce ==
    \A s \in Sessions :
        LET fs == ResizeFrames(FramesHandled(s))
            cs == ResizeCalls(calls[s])
        IN  /\ Len(cs) = Len(fs)
            /\ \A i \in 1..Len(fs) :
                  /\ cs[i].cols = Unmarshal(fs[i].payload).Cols
                  /\ cs[i].rows = Unmarshal(fs[i].payload).Rows
            /\ \A i \in 1..Len(execIn[s]) : ~WellFormedResize(execIn[s][i])

C5_Witness ==
    /\ recvd[1] = <<Message("text", PResize), Message("text", PResizeB)>>
    /\ inPc[1] = "read"
    /\ Len(ResizeCalls(calls[1])) = 2
    /\ ResizeCalls(calls[1])[1].cols = 120 /\ ResizeCalls(calls[1])[1].rows = 40
    /\ ResizeCalls(calls[1])[2].cols = 80 /\ ResizeCalls(calls[1])[2].rows = 24
    /\ execIn[1] = <<>>

\* The payloads the inbound loop owes to the exec input: the non-empty
\* frames that are no well-formed resize frame, in receive order.
DataPayloads(fs) ==
    LET d == SelectSeq(fs, LAMBDA m : m.payload # <<>> /\ ~WellFormedResize(m.payload))
    IN  [i \in 1..Len(d) |-> d[i].payload]

\* C6: as long as no write to the exec input has failed, the payloads
\* written to it are the non-empty frames received, without the well-formed
\* resize frames: one write per frame, verbatim, in receive order.
C6_InboundWritesEqualDataFrames ==
    \A s \in Sessions :
        ~execWriteFailed[s] => execIn[s] = DataPayloads(FramesHandled(s))

C6_Witness ==
    /\ ~execWriteFailed[1]
    /\ inPc[1] = "read"
    /\ recvd[1] = <<Message("text", PResize), Message("text", PPing)>>
    /\ execIn[1] = <<PPing>>

\* A frame that starts with '{' and is no well-formed resize frame.
BraceNotResize(p) ==
    /\ p # <<>>
    /\ p[1] = LBrace
    /\ Unmarshal(p).err \/ Unmarshal(p).Type # "resize"

\* C7: a frame that starts with '{' and fails to parse, or parses with
\* another type, makes no execResize call and is written unchanged to the
\* exec input; the loop goes on unless that write fails.
C7_MalformedControlIsForwarded ==
    [][\A s \in Sessions :
          /\ (/\ inPc[s] = "read"
              /\ Len(recvd'[s]) = Len(recvd[s]) + 1
              /\ BraceNotResize(recvd'[s][Len(recvd'[s])].payload))
                => /\ inPc'[s] = "write"
                   /\ cur'[s] = recvd'[s][Len(recvd'[s])].payload
                   /\ calls'[s] = calls[s]
          /\ (inPc[s] = "write" /\ BraceNotResize(cur[s]) /\ inPc'[s] # "write")
                => /\ execIn'[s] = Append(execIn[s], cur[s])
                   /\ calls'[s] = calls[s]
                   /\ inPc'[s] \in {"read", "cancel"}
                   /\ inPc'[s] = "cancel" => execWriteFailed'[s]
      ]_vars

C7_Witness ==
    /\ pc[1] = "wait"
    /\ inPc[1] = "read"
    /\ recvd[1] = <<Message("text", PFragHead), Message("binary", PFragTail)>>
    /\ execIn[1] = <<PFragHead, PFragTail>>
    /\ ResizeCalls(calls[1]) = <<>>

\* The exec session could not be started.
StartFailed(s) ==
    \E i \in 1..Len(calls[s]) :
        calls[s][i].op \in {"execCreate", "execAttach"} /\ ~calls[s][i].ok

\* C8: when exec creation or exec attach fails, exactly one text frame is
\* written to the transport and no binary frame, neither copy loop starts,
\* the failed call is the last call made, and the handler returns with the
\* transport closed.
C8_StartFailureOneTextFrame ==
    \A s \in Sessions :
        StartFailed(s) =>
            /\ Len(wsOut[s]) = 1
            /\ wsOut[s][1].mt = "text"
            /\ outPc[s] = "idle" /\ inPc[s] = "idle" /\ wg[s] = 0
            /\ ~calls[s][Len(calls[s])].ok
            /\ \A i \in 1..(Len(calls[s]) - 1) : calls[s][i].ok
            /\ Len(calls[s]) <= 2
            /\ Len(calls[s]) = 2 =>
                  calls[s][1].op = "execCreate" /\ calls[s][2].op = "execAttach"
            /\ pc[s] \in {"unwind", "returned"}
            /\ pc[s] = "returned" => wsState[s] = "closed" /\ hijackState[s] = "none"

C8_Witness ==
    /\ StartFailed(1)
    /\ Len(calls[1]) = 2
    /\ pc[1] = "returned"
    /\ wsOut[1] = <<TextFrame("exec attach error")>>

\* Positions i of fs that hold the same well-formed resize frame as i + 1.
RepeatedResizeAt(fs) ==
    {i \in 1..(Len(fs) - 1) : fs[i] = fs[i + 1] /\ WellFormedResize(fs[i].payload)}

WithoutPair(fs, i) == SubSeq(fs, 1, i - 1) \o SubSeq(fs, i + 2, Len(fs))

\* C9: the same well-formed resize frame twice in a row makes two execResize
\* calls with the same arguments, and the payloads written to the exec input
\* are those of the frames received without the two.
C9_RepeatedResizeTwoCalls ==
    \A s \in Sessions :
        \A i \in RepeatedResizeAt(FramesHandled(s)) :
            LET fs == FramesHandled(s)
                k  == Len(ResizeFrames(SubSeq(fs, 1, i - 1)))
                cs == ResizeCalls(calls[s])
            IN  /\ Len(cs) >= k + 2
                /\ cs[k + 1].cols = cs[k + 2].cols
                /\ cs[k + 1].rows = cs[k + 2].rows
                /\ cs[k + 1].cols = Unmarshal(fs[i].payload).Cols
                /\ cs[k + 1].rows = Unmarshal(fs[i].payload).Rows
                /\ Len(cs) = Len(ResizeFrames(WithoutPair(fs, i))) + 2
                /\ ~execWriteFailed[s] => execIn[s] = DataPayloads(WithoutPair(fs, i))

C9_Witness ==
    /\ inPc[1] = "read"
    /\ recvd[1] = <<Message("text", PResize), Message("text", PResize)>>
    /\ Len(ResizeCalls(calls[1])) = 2
    /\ ResizeCalls(calls[1])[1] = ResizeCalls(calls[1])[2]
    /\ execIn[1] = <<>>

\* C10: a request without an id is answered 400; no upgrade is attempted,
\* no Runtime Client call is made and no copy loop is started.
C10_MissingIdRejected ==
    \A s \in Sessions :
        (pc[s] # "idle" /\ reqId[s] = "") =>
            /\ pc[s] = "returned"
            /\ httpStatus[s] = 400
            /\ ~upgradeTried[s]
            /\ wsState[s] = "none"
            /\ calls[s] = <<>>
            /\ outPc[s] = "idle" /\ inPc[s] = "idle"

C10_Witness ==
    pc[1] = "returned" /\ reqId[1] = "" /\ httpStatus[1] = 400

\* ---- /resize and /healthz
\* The words of the claims about a dimension parameter, read off the
\* characters alone: a decimal numeral, and one whose value is zero.
IsDecimal(s) == s # <<>> /\ \A i \in 1..Len(s) : s[i] \in DOMAIN DigitVal
IsZero(s) == IsDecimal(s) /\ \A i \in 1..Len(s) : s[i] = "0"
GoodDim(s) == IsDecimal(s) /\ ~IsZero(s)
BadDim(s) == ~IsDecimal(s) \/ IsZero(s)
ContainerResizeCalls ==
    SelectSeq(resizeReq.calls, LAMBDA c : c.op = "containerResize")

\* C11 as stated: /resize calls containerResize only when id is non-empty
\* and w and h are both decimal numerals above zero; a request whose id is
\* missing, or whose w or h is missing, unparseable or zero, is answered 400
\* with no Runtime Client call; and with an id and an invalid w the 400 body
\* names w.  Every request to /resize is covered, whatever its method.
C11_ResizeRejectsWith400 ==
    /\ resizeReq.calls # <<>> =>
          resizeReq.id # "" /\ GoodDim(resizeReq.w) /\ GoodDim(resizeReq.h)
    /\ ( /\ resizeReq.pc = "done"
         /\ resizeReq.id = "" \/ BadDim(resizeReq.w) \/ BadDim(resizeReq.h) )
          => resizeReq.reply.status = 400 /\ resizeReq.calls = <<>>
    /\ (resizeReq.pc = "done" /\ resizeReq.id # "" /\ BadDim(resizeReq.w))
          => resizeReq.reply = Reply(400, InvalidW)

\* C11 amended: the same three statements, the second and the third for
\* POST requests only (line 166 answers every other method 405 before it
\* looks at id, w or h); no request that is rejected reaches the Runtime
\* Client, whatever its method.
C11_PostResizeRejectsWith400 ==
    /\ resizeReq.calls # <<>> =>
          resizeReq.id # "" /\ GoodDim(resizeReq.w) /\ GoodDim(resizeReq.h)
    /\ ( /\ resizeReq.pc = "done"
         /\ resizeReq.id = "" \/ BadDim(resizeReq.w) \/ BadDim(resizeReq.h) )
          => /\ resizeReq.calls = <<>>
             /\ resizeReq.reply.status = IF resizeReq.method = "POST" THEN 400 ELSE 405
    /\ ( /\ resizeReq.pc = "done" /\ resizeReq.method = "POST"
         /\ resizeReq.id # "" /\ BadDim(resizeReq.w) )
          => resizeReq.reply = Reply(400, InvalidW)

\* POST /resize?id=abc123&w=0&h=40 has been answered.
C11_Witness ==
    /\ resizeReq.pc = "done" /\ resizeReq.method = "POST"
    /\ resizeReq.id = "abc123" /\ resizeReq.w = <<"0">> /\ resizeReq.h = <<"4", "0">>
    /\ resizeReq.reply = Reply(400, InvalidW)
    /\ resizeReq.calls = <<>>

\* The value of a decimal numeral, most significant digit first.
RECURSIVE Value(_)
Value(s) == IF s = <<>> THEN 0 ELSE 10 * Value(SubSeq(s, 1, Len(s) - 1)) + DigitVal[s[Len(s)]]

\* The request passed validation: it went on to the Docker call.
Validated == resizeReq.pc = "done" /\ resizeReq.reply.status \notin {400, 405}

\* C12: a validated POST /resize request makes exactly one containerResize
\* call, with cols the value of w and rows the value of h; the answer is
\* 200 "ok" exactly when that call succeeded and 500 when it failed.
C12_ValidatedResizeCallsOnce ==
    Validated =>
       /\ resizeReq.method = "POST"
       /\ Len(resizeReq.calls) = 1
       /\ resizeReq.calls[1].op = "containerResize"
       /\ resizeReq.calls[1].cols = Value(resizeReq.w)
       /\ resizeReq.calls[1].rows = Value(resizeReq.h)
       /\ resizeReq.reply = Reply(200, "ok") <=> resizeReq.calls[1].ok
       /\ resizeReq.reply.status = 500 <=> ~resizeReq.calls[1].ok

\* POST /resize?id=abc123&w=120&h=40 was applied, and the same request
\* failed in Docker.
C12_Witness ==
    /\ resizeReq.w = <<"1", "2", "0">> /\ resizeReq.h = <<"4", "0">>
    /\ resizeReq.calls = <<Call("containerResize", 120, 40, TRUE)>>
    /\ resizeReq.reply = Reply(200, "ok")

\* C13: /healthz pings the Runtime Client exactly once; the answer is 200
\* with status "ok" and the daemon's API version when the ping succeeded,
\* and 503 when the daemon answered with an error or had not answered when
\* the 3 seconds were over.
C13_HealthPingsOnce ==
    healthReq.pc = "done" =>
       /\ Len(healthReq.pings) = 1
       /\ LET p == healthReq.pings[1]
          IN  IF p.answer.ok /\ p.latency < 3
              THEN healthReq.reply = Reply(200, JsonBody("ok", p.answer.version))
              ELSE healthReq.reply.status = 503

\* Scenario E: the daemon would have answered, after the 3 seconds.
C13_Witness ==
    /\ healthReq.pc = "done"
    /\ healthReq.pings = <<[latency |-> 3, answer |-> [ok |-> TRUE, version |-> "1.43"]]>>
    /\ healthReq.reply.status = 503

\* ---- the copy loops after an error
FailedResizeCalls(s) == SelectSeq(calls[s], LAMBDA c : c.op = "execResize" /\ ~c.ok)

\* C14: an execResize call that fails leaves the inbound loop running, at
\* the read of the next frame, with nothing written to the exec input and
\* nothing cancelled; and in a session with a failed execResize call the exec
\* input still receives exactly the frames it would have received (C6).
C14_FailedResizeIsNotFatal ==
    /\ [](\A s \in Sessions :
             (FailedResizeCalls(s) # <<>> /\ ~execWriteFailed[s])
                => execIn[s] = DataPayloads(FramesHandled(s)))
    /\ [][\A s \in Sessions :
             (Len(FailedResizeCalls(s))' > Len(FailedResizeCalls(s)))
                => /\ inPc'[s] = "read"
                   /\ execIn'[s] = execIn[s]
                   /\ cancelled'[s] = cancelled[s]
                   /\ wg'[s] = wg[s]]_vars

\* A resize frame whose call failed, and the frame after it forwarded.
C14_Witness ==
    /\ recvd[1] = <<Message("text", PResize), Message("binary", PLs)>>
    /\ ResizeCalls(calls[1]) = <<Call("execResize", 120, 40, FALSE)>>
    /\ execIn[1] = <<PLs>>
    /\ ~execWriteFailed[1]
    /\ inPc[1] = "read"
    /\ ~cancelled[1]

\* C15: once one loop has exited and called cancel(), the other exits on its
\* next iteration: after the outbound loop has exited the inbound loop makes
\* at most the one exec-input write or execResize call of the iteration in
\* flight, and after the inbound loop has exited the outbound loop sends at
\* most the one binary frame of the iteration in flight.
C15_OtherLoopStopsAfterCancel ==
    \A s \in Sessions : lateIn[s] <= 1 /\ lateOut[s] <= 1

\* A copy loop of the session is running: started and not yet returned.
Running(loopPc) == loopPc \notin {"idle", "done"}

\* C16: the handler closes hijack and ws only after both copy loops have
\* returned: while a loop is running neither handle is closed, so no loop
\* step reads from or writes to a handle the handler has closed.
C16_HandlesClosedAfterLoops ==
    \A s \in Sessions :
        (Running(outPc[s]) \/ Running(inPc[s]))
           => /\ wsState[s] = "open" /\ wsCloses[s] = 0
              /\ hijackState[s] = "open" /\ hijackCloses[s] = 0

\* Both loops ran and returned, then both handles were closed.
C16_Witness ==
    /\ outPc[1] = "done" /\ inPc[1] = "done"
    /\ reads[1] # <<>> /\ recvd[1] # <<>>
    /\ hijackState[1] = "closed" /\ wsState[1] = "closed"

Last(q) == q[Len(q)]

\* C17: each handle has one writer.  A frame is written to ws either by the
\* outbound loop, as a binary frame, while the handler waits in wg.Wait(), or
\* by the handler, as the text frame of a failed start, with no loop started
\* then or later; the exec input is written by the inbound loop alone.  The
\* handler is thus never at a write to ws while a loop runs, and a text frame
\* is the only frame of its session.
C17_SingleWriterPerHandle ==
    /\ [](\A s \in Sessions :
             /\ pc[s] \in {"create", "attach"} => ~Running(outPc[s]) /\ ~Running(inPc[s])
             /\ (\E i \in 1..Len(wsOut[s]) : wsOut[s][i].mt = "text")
                   => Len(wsOut[s]) = 1 /\ outPc[s] = "idle" /\ inPc[s] = "idle")
    /\ [][\A s \in Sessions :
             /\ wsOut'[s] # wsOut[s] =>
                   \/ /\ outPc[s] = "write" /\ outPc'[s] # "write"
                      /\ pc[s] = "wait"
                      /\ wsOut'[s] = Append(wsOut[s], Last(wsOut'[s]))
                      /\ Last(wsOut'[s]).mt = "binary"
                   \/ /\ pc[s] \in {"create", "attach"} /\ pc'[s] = "unwind"
                      /\ outPc'[s] = "idle" /\ inPc'[s] = "idle"
                      /\ wsOut'[s] = <<Last(wsOut'[s])>>
                      /\ Last(wsOut'[s]).mt = "text"
             /\ execIn'[s] # execIn[s] =>
                   /\ inPc[s] = "write" /\ inPc'[s] # "write"
                   /\ pc[s] = "wait"]_vars

\* Both writers have written while both loops were running, and a write to
\* the exec input has failed.
C17_Witness ==
    /\ wsOut[1] # <<>> /\ Last(wsOut[1]).mt = "binary"
    /\ execIn[1] # <<>> /\ execWriteFailed[1]
    /\ Running(outPc[1])

\* C18: a failed write ends its loop.  Once a ws.WriteMessage of the
\* outbound loop has failed that loop is on its way out and makes no further
\* hijack.Reader.Read and no further ws.WriteMessage; once a hijack.Conn.Write
\* has failed the inbound loop is on its way out and makes no further
\* ws.ReadMessage, execResize call or hijack.Conn.Write.
C18_FailedWriteEndsLoop ==
    /\ [](\A s \in Sessions :
             /\ (wsWriteFailed[s] /\ outPc[s] # "idle") => outPc[s] \in {"cancel", "wgdone", "done"}
             /\ execWriteFailed[s] => inPc[s] \in {"cancel", "wgdone", "done"})
    /\ [][\A s \in Sessions :
             /\ (wsWriteFailed[s] /\ outPc[s] # "idle")
                   => reads'[s] = reads[s] /\ wsOut'[s] = wsOut[s]
             /\ execWriteFailed[s]
                   => recvd'[s] = recvd[s] /\ calls'[s] = calls[s] /\ execIn'[s] = execIn[s]]_vars

\* The first binary frame failed with more output pending, and the first
\* payload failed with another frame waiting: both loops have returned.
C18_Witness ==
    /\ wsWriteFailed[1] /\ Len(wsOut[1]) = 1 /\ execPending[1] # <<>>
    /\ execWriteFailed[1] /\ Len(execIn[1]) = 1 /\ inbox[1] # <<>>
    /\ outPc[1] = "done" /\ inPc[1] = "done"

\* attachHandler got past the upgrade.
Upgraded(s) == httpStatus[s] = 101

\* C19: whenever the WaitGroup has counted at least one of the two started
\* loops as finished, ctx is cancelled; and ctx is cancelled whenever
\* attachHandler has returned after a successful upgrade.
C19_CancelledBeforeCounted ==
    \A s \in Sessions :
        /\ (outPc[s] # "idle" /\ wg[s] < 2) => cancelled[s]
        /\ (pc[s] = "returned" /\ Upgraded(s)) => cancelled[s]

\* One loop has been counted and the other is still in its read.
C19_Witness ==
    /\ pc[1] = "wait" /\ wg[1] = 1
    /\ inPc[1] = "done" /\ outPc[1] = "read"
    /\ cancelled[1]

\* C20: every execResize call of the inline channel carries cols >= 1 and
\* rows >= 1, so a frame of type "resize" whose cols or rows is missing or
\* zero is not applied.
C20_ExecResizeDimsPositive ==
    \A s \in Sessions :
        \A i \in 1..Len(calls[s]) :
            calls[s][i].op = "execResize"
               => calls[s][i].cols >= 1 /\ calls[s][i].rows >= 1

\* ---- the remaining frame and session properties
\* C22: reading a frame with an empty payload writes nothing to the exec
\* input, makes no Runtime Client call, cancels nothing and leaves the
\* inbound loop at the read of the next frame; in a session that received an
\* empty frame the exec input and the execResize calls are still exactly
\* those of the other frames.
C22_EmptyFrameIsSkipped ==
    /\ [](\A s \in Sessions :
             (\E i \in 1..Len(recvd[s]) : recvd[s][i].payload = <<>>)
                => /\ ~execWriteFailed[s] => execIn[s] = DataPayloads(FramesHandled(s))
                   /\ Len(ResizeCalls(calls[s])) = Len(ResizeFrames(FramesHandled(s))))
    /\ [][\A s \in Sessions :
             (Len(recvd'[s]) > Len(recvd[s]) /\ Last(recvd'[s]).payload = <<>>)
                => /\ inPc'[s] = "read"
                   /\ execIn'[s] = execIn[s]
                   /\ calls'[s] = calls[s]
                   /\ cancelled'[s] = cancelled[s]]_vars

\* An empty frame, then a data frame that was forwarded.
C22_Witness ==
    /\ recvd[1] = <<Message("binary", PEmpty), Message("binary", PLs)>>
    /\ execIn[1] = <<PLs>>
    /\ ResizeCalls(calls[1]) = <<>>
    /\ inPc[1] = "read"

Creates(s)  == SelectSeq(calls[s], LAMBDA c : c.op = "execCreate")
Attaches(s) == SelectSeq(calls[s], LAMBDA c : c.op = "execAttach")

\* C23: a connection makes at most one execCreate call and at most one
\* execAttach call, the latter only after the former succeeded; and once
\* attachHandler is past its start (loops spawned, start failed, or
\* returned) neither call is made again.
C23_OneExecPerConnection ==
    /\ [](\A s \in Sessions :
             /\ Len(Creates(s)) <= 1 /\ Len(Attaches(s)) <= 1
             /\ Attaches(s) # <<>> =>
                   /\ Creates(s) = <<Call("execCreate", 0, 0, TRUE)>>
                   /\ calls[s][1].op = "execCreate" /\ calls[s][2].op = "execAttach")
    /\ [][\A s \in Sessions :
             pc[s] \in {"spawn", "wait", "unwind", "returned"}
                => Creates(s)' = Creates(s) /\ Attaches(s)' = Attaches(s)]_vars

\* A session that ran and ended, with its one create and one attach.
C23_Witness ==
    /\ pc[1] = "returned"
    /\ outPc[1] = "done" /\ inPc[1] = "done"
    /\ Len(Creates(1)) = 1 /\ Len(Attaches(1)) = 1

\* C24: a read that returns data together with io.EOF or another error is
\* followed by the write of exactly that data as one binary frame, and only
\* then does the outbound loop end: once the loop is past the write, the last
\* frame on ws is the data of that read.
C24_FinalChunkForwarded ==
    /\ [](\A s \in Sessions :
             ( /\ reads[s] # <<>>
               /\ Last(reads[s]).data # <<>> /\ Last(reads[s]).err # "nil"
               /\ outPc[s] # "write" )
                => /\ wsOut[s] # <<>>
                   /\ Last(wsOut[s]) = BinaryFrame(Last(reads[s]).data)
                   /\ Len(wsOut[s]) = Len(NonEmptyData(reads[s]))
                   /\ Exited(outPc[s]) \/ outPc[s] = "cancel")
    /\ [][\A s \in Sessions :
             ( /\ Len(reads'[s]) > Len(reads[s])
               /\ Last(reads'[s]).data # <<>> /\ Last(reads'[s]).err # "nil" )
                => outPc'[s] = "write"]_vars

\* Two bytes arrived with io.EOF after an earlier chunk; both were sent.
C24_Witness ==
    /\ reads[1] = <<ReadResult(<<1>>, "nil"), ReadResult(<<2, 1>>, "EOF")>>
    /\ wsOut[1] = <<BinaryFrame(<<1>>), BinaryFrame(<<2, 1>>)>>
    /\ outPc[1] = "done"

\* C21: the two resize paths are separate.  The calls made for a session
\* are execCreate, execAttach and execResize, never containerResize, and an
\* inline resize adds its call to its own session and leaves the /resize
\* request alone; /resize makes containerResize calls only, and its steps
\* leave every session variable alone; and whatever state the sessions are
\* in, a /resize request that has arrived can take its next step.
C21_ResizePathsIndependent ==
    /\ [](/\ \A s \in Sessions : \A i \in 1..Len(calls[s]) :
                calls[s][i].op \in {"execCreate", "execAttach", "execResize"}
          /\ \A i \in 1..Len(resizeReq.calls) :
                resizeReq.calls[i].op = "containerResize"
          /\ resizeReq.pc = "check" => ENABLED ResizeValidate
          /\ resizeReq.pc = "call" => ENABLED ContainerResize)
    /\ [][/\ resizeReq' # resizeReq => sessionVars' = sessionVars
          /\ \A s \in Sessions :
                (inPc[s] = "resize" /\ inPc'[s] # "resize")
                   => /\ calls'[s] = Append(calls[s], Last(calls'[s]))
                      /\ Last(calls'[s]).op = "execResize"
                      /\ \A o \in Sessions \ {s} : calls'[o] = calls[o]
                      /\ resizeReq' = resizeReq]_vars

\* /resize was served while the session's loops were both blocked in their
\* reads, after an inline resize of the same session.
C21_Witness ==
    /\ pc[1] = "wait" /\ outPc[1] = "read" /\ inPc[1] = "read"
    /\ inbox[1] = <<>> /\ execPending[1] = <<>>
    /\ ResizeCalls(calls[1]) # <<>>
    /\ resizeReq.pc = "done"
    /\ resizeReq.calls = <<Call("containerResize", 120, 40, TRUE)>>

BinaryFrames(s) == SelectSeq(wsOut[s], LAMBDA f : f.mt = "binary")

\* C25: sessions are isolated.  What is written to a session's exec input
\* are payloads received on that session's transport; the binary frames on a
\* session's transport carry data read from that session's exec stream; the
\* execResize calls on a session's exec are those of resize frames received
\* on that session's transport; and a handle of a session is closed by a
\* step of that session's own handler, after its own loops have returned,
\* whatever the other session does.
C25_SessionsIsolated ==
    /\ [](\A s \in Sessions :
             /\ Len(execIn[s]) <= Len(recvd[s])
             /\ \A i \in 1..Len(execIn[s]) :
                   \E j \in 1..Len(recvd[s]) : recvd[s][j].payload = execIn[s][i]
             /\ Len(BinaryFrames(s)) <= Len(reads[s])
             /\ \A i \in 1..Len(BinaryFrames(s)) :
                   \E j \in 1..Len(reads[s]) : reads[s][j].data = BinaryFrames(s)[i].data
             /\ Len(ResizeCalls(calls[s])) <= Len(ResizeFrames(recvd[s]))
             /\ \A i \in 1..Len(ResizeCalls(calls[s])) :
                   \E j \in 1..Len(recvd[s]) :
                      /\ WellFormedResize(recvd[s][j].payload)
                      /\ Unmarshal(recvd[s][j].payload).Cols = ResizeCalls(calls[s])[i].cols
                      /\ Unmarshal(recvd[s][j].payload).Rows = ResizeCalls(calls[s])[i].rows
             /\ (Running(outPc[s]) \/ Running(inPc[s]))
                   => wsState[s] = "open" /\ hijackState[s] = "open")
    /\ [][\A s \in Sessions :
             (wsCloses'[s] # wsCloses[s] \/ hijackCloses'[s] # hijackCloses[s])
                => /\ pc[s] = "unwind"
                   /\ \A o \in Sessions \ {s} :
                         /\ wsState'[o] = wsState[o] /\ wsCloses'[o] = wsCloses[o]
                         /\ hijackState'[o] = hijackState[o]
                         /\ hijackCloses'[o] = hijackCloses[o]]_vars

\* Session 1 has forwarded its payload and its output and has ended, with
\* both its handles closed, while session 2, which has applied its resize
\* and sent its output, is still running with both its handles open.
C25_Witness ==
    /\ pc[1] = "returned" /\ wsState[1] = "closed" /\ hijackState[1] = "closed"
    /\ execIn[1] = <<PLs>> /\ wsOut[1] = <<BinaryFrame(<<1>>)>>
    /\ pc[2] = "wait" /\ Running(inPc[2])
    /\ wsState[2] = "open" /\ hijackState[2] = "open"
    /\ ResizeCalls(calls[2]) # <<>> /\ ResizeCalls(calls[2])[1].cols = 80
    /\ wsOut[2] = <<BinaryFrame(<<2, 1>>)>>
    /\ execIn[2] = <<>> /\ ResizeCalls(calls[1]) = <<>>

\* ---- buildTree
\* The nodes of a find output and their parents, read off the output alone.
ListedPaths(out) ==
    { TrimPrefix(Split(l, ":")[1], <<".", "/">>) : l \in out } \ {<<".">>, <<>>}
ListedDirs(out) ==
    { TrimPrefix(Split(l, ":")[1], <<".", "/">>) :
         l \in {x \in out : Contains(Split(x, ":")[2], Directory)} } \ {<<".">>, <<>>}
PathsOf(nodes) == { nodes[i].Path : i \in 1..Len(nodes) }

\* C26: in the tree buildTree returns, a node whose parent directory is
\* listed in the output is among the children of that directory, and a node
\* is at the top level only when its parent is the workspace root or is not
\* listed.
C26_NodesUnderListedParent ==
    treeReq.pc = "done" =>
       \A p \in ListedPaths(treeReq.output) :
          IF Dir(p) \in ListedDirs(treeReq.output)
          THEN /\ p \in PathsOf(treeReq.dirs[Dir(p)])
               /\ p \notin PathsOf(treeReq.topLevel)
          ELSE p \in PathsOf(treeReq.topLevel)

====
